---- MODULE Spec2Model ----
(***************************************************************************)
(* ChampSim: the fetch-directed instruction prefetcher (FDIP) of           *)
(* prefetcher/fdip/fdip.cc and the phase driver / run driver of            *)
(* src/champsim.cc, as state machines.                                     *)
(***************************************************************************)
EXTENDS Integers, Sequences, FiniteSets, TLC

(***************************************************************************)
(* Program constants.                                                      *)
(***************************************************************************)
MAX_PFETCHQ_ENTRIES == 128
MAX_RECENT_PFETCH == 4
LOG2_BLOCK_SIZE == 6
DEADLOCK_CYCLE == 500

(***************************************************************************)
(* Bounds of the model.                                                    *)
(***************************************************************************)
\* capacity of a cache's miss-status holding registers (set by the
\* generated configuration, not by the prefetcher)
MSHR_SIZE == 2
\* number of cache instances that run the FDIP prefetcher
NumCaches == 2
\* highest block number a branch target may name in the small-address
\* specification
MaxBlock == 2
\* number of distinct blocks the queue-filling specification may enqueue
MaxFresh == 130
\* capacity of the core's input queue (O3_CPU::IN_QUEUE_SIZE)
IN_QUEUE_SIZE == 2
\* number of Operables besides the core in the environment
NumOthers == 1
\* number of records in the trace of the core
TraceLen == 6
\* largest snapshot interval
MaxRate == 2
\* longest run of zero-progress cycles explored by the general phase specification
MaxStall == 1

VARIABLES
  prefetch_queue,     \* fdip.cc:11, file scope: <<block_addr, branch_target, size>>
  recent_prefetches,  \* fdip.cc:12, file scope: addresses given to prefetch_line
  last                \* the most recent prefetcher call, its inputs (arguments, the
                      \* answers of hit_test and prefetch_line) and its prefetch_line calls

VARIABLES
  env_ops,            \* env.operable_view(): the Operables in the environment's order
  phases,             \* the phase descriptors given to champsim::main
  traces,             \* the trace readers, one per core: [pos, len, base]
  replacement,        \* the optional replacement reader: <<>> or <<[pos, len, base]>>
  pc,                 \* where champsim::main / do_phase stands
  phase_idx,          \* index of the phase main is at
  operables,          \* do_phase's local dispatch list
  leap,               \* leap_operation of every Operable
  stalled_cycle,      \* do_phase's consecutive-stall counter
  phase_complete,     \* do_phase's completion flag per core
  input_queue,        \* the core's input queue
  num_retired,        \* the core's retired-instruction count
  begin_instr,        \* the core's retired-instruction count at begin_phase
  trace_iteration_counter,
  stats,              \* the phase_stats under construction
  results,            \* main's result vector
  initialized,        \* number of initialize calls every Operable has received
  cyc                 \* the cycles of the phase so far: dispatch order, calls, pulls;
                      \* span: the zero-progress cycles in a row, across phases

fdipVars == <<prefetch_queue, recent_prefetches, last>>
phaseVars == <<env_ops, phases, traces, replacement, pc, phase_idx, operables, leap,
               stalled_cycle, phase_complete, input_queue, num_retired, begin_instr,
               trace_iteration_counter, stats, results, initialized, cyc>>
vars == <<prefetch_queue, recent_prefetches, last,
          env_ops, phases, traces, replacement, pc, phase_idx, operables, leap,
          stalled_cycle, phase_complete, input_queue, num_retired, begin_instr,
          trace_iteration_counter, stats, results, initialized, cyc>>

(***************************************************************************)
(* Helpers.                                                                *)
(***************************************************************************)
Range(s) == {s[i] : i \in 1..Len(s)}

BLOCK_SIZE == 2 ^ LOG2_BLOCK_SIZE

\* ((a >> LOG2_BLOCK_SIZE) << LOG2_BLOCK_SIZE)
BlockOf(a) == (a \div BLOCK_SIZE) * BLOCK_SIZE

\* x >> 1
Shr1(x) == x \div 2

Caches == 1..NumCaches

\* The queue and the filter a cache instance works on: both deques are
\* declared at file scope, so every instance sees the same objects.
QueueOf(c) == prefetch_queue
FilterOf(c) == recent_prefetches

(***************************************************************************)
(* Faulty variants of prefetcher_branch_operate: one that never evicts,    *)
(* one that evicts the newest entry instead of the oldest.                 *)
(***************************************************************************)
branch_operate_noevict(q, r, branch_target, size) ==
  LET block_addr == BlockOf(branch_target) IN
  IF block_addr = 0 THEN q
  ELSE IF \E i \in 1..Len(q) : q[i][1] = block_addr THEN q
  ELSE IF block_addr \notin Range(r)
         THEN Append(q, <<block_addr, branch_target, size>>)
         ELSE q

branch_operate_popback(q, r, branch_target, size) ==
  LET block_addr == BlockOf(branch_target) IN
  IF block_addr = 0 THEN q
  ELSE IF \E i \in 1..Len(q) : q[i][1] = block_addr THEN q
  ELSE LET q1 == IF block_addr \notin Range(r)
                   THEN Append(q, <<block_addr, branch_target, size>>)
                   ELSE q
       IN IF Len(q1) > MAX_PFETCHQ_ENTRIES
            THEN Append(SubSeq(q1, 1, Len(q1) - 2), q1[Len(q1)])
            ELSE q1

\* faulty variant: the recent-issue filter is not consulted
branch_operate_nofilter(q, r, branch_target, size) ==
  LET block_addr == BlockOf(branch_target) IN
  IF block_addr = 0 THEN q
  ELSE IF \E i \in 1..Len(q) : q[i][1] = block_addr THEN q
  ELSE LET q1 == Append(q, <<block_addr, branch_target, size>>)
       IN IF Len(q1) > MAX_PFETCHQ_ENTRIES THEN Tail(q1) ELSE q1

(***************************************************************************)
(* CACHE::prefetcher_branch_operate: the new pending queue.                *)
(***************************************************************************)
branch_operate(q, r, branch_target, size) ==
  LET block_addr == BlockOf(branch_target) IN
  IF block_addr = 0 THEN q
  ELSE IF \E i \in 1..Len(q) : q[i][1] = block_addr THEN q
  ELSE LET q1 == IF block_addr \notin Range(r)
                   THEN Append(q, <<block_addr, branch_target, size>>)
                   ELSE q
       IN IF Len(q1) > MAX_PFETCHQ_ENTRIES THEN Tail(q1) ELSE q1

\* faulty variant of prefetcher_cache_operate: a hit prefetches as well
cache_operate_hit(r, addr, cache_hit, occ) ==
  IF occ < Shr1(MSHR_SIZE)
    THEN LET pf_addr == addr + BLOCK_SIZE
             r1 == Append(r, pf_addr)
         IN [r |-> IF Len(r1) > MAX_RECENT_PFETCH THEN Tail(r1) ELSE r1,
             pf |-> <<pf_addr>>]
    ELSE [r |-> r, pf |-> <<>>]

(***************************************************************************)
(* CACHE::prefetcher_cache_operate: the new filter and the prefetch_line   *)
(* calls made.                                                             *)
(***************************************************************************)
cache_operate(r, addr, cache_hit, occ) ==
  IF cache_hit = 0 /\ occ < Shr1(MSHR_SIZE)
    THEN LET pf_addr == addr + BLOCK_SIZE
             r1 == Append(r, pf_addr)
         IN [r |-> IF Len(r1) > MAX_RECENT_PFETCH THEN Tail(r1) ELSE r1,
             pf |-> <<pf_addr>>]
    ELSE [r |-> r, pf |-> <<>>]

(***************************************************************************)
(* Faulty variant of prefetcher_cycle_operate: the gate admits an          *)
(* occupancy equal to half of the capacity.                                *)
(***************************************************************************)
RECURSIVE cycle_operate_gate(_, _, _, _)
cycle_operate_gate(q, r, occ, resident) ==
  IF Len(q) = 0 THEN [q |-> q, r |-> r, pf |-> <<>>]
  ELSE IF occ <= Shr1(MSHR_SIZE)
    THEN LET front == Head(q)
             found == front[1] \in Range(r)
         IN IF front[2] \in resident
              THEN cycle_operate_gate(Tail(q), r, occ, resident)
              ELSE LET r1 == IF ~found THEN Append(r, front[1]) ELSE r
                       r2 == IF Len(r1) > MAX_RECENT_PFETCH THEN Tail(r1) ELSE r1
                   IN [q |-> Tail(q), r |-> r2,
                       pf |-> IF ~found THEN <<front[1]>> ELSE <<>>]
    ELSE [q |-> q, r |-> r, pf |-> <<>>]

\* faulty variant: a resident head is issued like any other
cycle_operate_noskip(q, r, occ, resident) ==
  IF Len(q) = 0 THEN [q |-> q, r |-> r, pf |-> <<>>]
  ELSE IF occ < Shr1(MSHR_SIZE)
    THEN LET front == Head(q)
             found == front[1] \in Range(r)
             r1 == IF ~found THEN Append(r, front[1]) ELSE r
             r2 == IF Len(r1) > MAX_RECENT_PFETCH THEN Tail(r1) ELSE r1
         IN [q |-> Tail(q), r |-> r2,
             pf |-> IF ~found THEN <<front[1]>> ELSE <<>>]
    ELSE [q |-> q, r |-> r, pf |-> <<>>]

\* faulty variant: an issued entry stays in the pending queue
RECURSIVE cycle_operate_keep(_, _, _, _)
cycle_operate_keep(q, r, occ, resident) ==
  IF Len(q) = 0 THEN [q |-> q, r |-> r, pf |-> <<>>]
  ELSE IF occ < Shr1(MSHR_SIZE)
    THEN LET front == Head(q)
             found == front[1] \in Range(r)
         IN IF front[2] \in resident
              THEN cycle_operate_keep(Tail(q), r, occ, resident)
              ELSE LET r1 == IF ~found THEN Append(r, front[1]) ELSE r
                       r2 == IF Len(r1) > MAX_RECENT_PFETCH THEN Tail(r1) ELSE r1
                   IN [q |-> IF ~found THEN q ELSE Tail(q), r |-> r2,
                       pf |-> IF ~found THEN <<front[1]>> ELSE <<>>]
    ELSE [q |-> q, r |-> r, pf |-> <<>>]

(***************************************************************************)
(* CACHE::prefetcher_cycle_operate: the while loop.  resident is the set   *)
(* of addresses hit_test answers true for during the call.                 *)
(***************************************************************************)
RECURSIVE cycle_operate(_, _, _, _)
cycle_operate(q, r, occ, resident) ==
  IF Len(q) = 0 THEN [q |-> q, r |-> r, pf |-> <<>>]
  ELSE IF occ < Shr1(MSHR_SIZE)
    THEN LET front == Head(q)
             found == front[1] \in Range(r)
         IN IF front[2] \in resident
              THEN cycle_operate(Tail(q), r, occ, resident)   \* pop_front; continue
              ELSE LET r1 == IF ~found THEN Append(r, front[1]) ELSE r
                       r2 == IF Len(r1) > MAX_RECENT_PFETCH THEN Tail(r1) ELSE r1
                   IN [q |-> Tail(q), r |-> r2,
                       pf |-> IF ~found THEN <<front[1]>> ELSE <<>>]
    ELSE [q |-> q, r |-> r, pf |-> <<>>]

(***************************************************************************)
(* prefetch_line returns whether the prefetch was issued.  Both callers    *)
(* discard the value: the state a call leaves is res, the state computed   *)
(* for it, whatever issued is; before is the state the call started from.  *)
(***************************************************************************)
\* faulty variant: a prefetch that was not issued is left to be retried
PrefetchOutcome_retry(before, res, issued) ==
  IF res.pf # <<>> /\ ~issued THEN [before EXCEPT !.pf = res.pf] ELSE res

PrefetchOutcome(before, res, issued) == res

(***************************************************************************)
(* Prefetcher events of cache instance c.                                  *)
(***************************************************************************)
BranchOperate(c, branch_target, size) ==
  /\ prefetch_queue' = branch_operate(QueueOf(c), FilterOf(c), branch_target, size)
  /\ recent_prefetches' = recent_prefetches
  /\ last' = [op |-> "branch", cache |-> c, addr |-> branch_target,
              hit |-> 0, occ |-> 0, pf |-> <<>>,
              popped |-> IF Len(prefetch_queue') = Len(prefetch_queue)
                              /\ prefetch_queue' # prefetch_queue THEN 1 ELSE 0,
              resident |-> {}, issued |-> TRUE]
  /\ UNCHANGED phaseVars

CacheOperate(c, addr, cache_hit, occ) ==
  LET call == cache_operate(FilterOf(c), addr, cache_hit, occ) IN
  \E issued \in IF call.pf = <<>> THEN {TRUE} ELSE BOOLEAN :
     LET res == PrefetchOutcome([r |-> FilterOf(c), pf |-> <<>>], call, issued) IN
     /\ recent_prefetches' = res.r
     /\ prefetch_queue' = prefetch_queue
     /\ last' = [op |-> "cache", cache |-> c, addr |-> addr,
                 hit |-> cache_hit, occ |-> occ, pf |-> res.pf, popped |-> 0,
                 resident |-> {}, issued |-> issued]
     /\ UNCHANGED phaseVars

CycleOperate(c, occ, resident) ==
  LET call == cycle_operate(QueueOf(c), FilterOf(c), occ, resident) IN
  \E issued \in IF call.pf = <<>> THEN {TRUE} ELSE BOOLEAN :
     LET res == PrefetchOutcome([q |-> QueueOf(c), r |-> FilterOf(c), pf |-> <<>>],
                                call, issued) IN
     /\ prefetch_queue' = res.q
     /\ recent_prefetches' = res.r
     /\ last' = [op |-> "cycle", cache |-> c, addr |-> 0,
                 hit |-> 0, occ |-> occ, pf |-> res.pf,
                 popped |-> Len(prefetch_queue) - Len(res.q),
                 resident |-> resident, issued |-> issued]
     /\ UNCHANGED phaseVars

FdipInit ==
  /\ prefetch_queue = <<>>
  /\ recent_prefetches = <<>>
  /\ last = [op |-> "none", cache |-> 1, addr |-> 0, hit |-> 0, occ |-> 0, pf |-> <<>>,
          popped |-> 0, resident |-> {}, issued |-> TRUE]

(***************************************************************************)
(* The phase driver and the run driver (src/champsim.cc).  The environment *)
(* holds one core, Operable 1, and NumOthers further Operables.            *)
(***************************************************************************)
Cpus == {0}
CpuOp == 1
\* values of leap_operation, progress values of _operate, instructions the
\* core takes from its input queue and retires in one cycle
Leaps == {0, 1}
Progresses == {0, 1}
RetireCounts == {0, 1}
\* number of records in the replacement trace, when there is one
ReplLen == TraceLen \div 2
Ops == Range(env_ops)

RECURSIVE SumSeq(_)
SumSeq(s) == IF s = <<>> THEN 0 ELSE Head(s) + SumSeq(Tail(s))

Min(a, b) == IF a < b THEN a ELSE b

\* tracereader::eof() and tracereader::operator() of a finite trace
Eof(rd) == rd.pos >= rd.len
ReadRecord(rd) == rd.base + rd.pos + 1
Advance(rd) == [rd EXCEPT !.pos = rd.pos + 1]

\* the phase do_phase is running
Phase == phases[phase_idx]

\* faulty variant: a replacement reader is used in the warmup as well
UseReplacement_always(is_warmup) == replacement # <<>>

\* whether do_phase reads the replacement reader
UseReplacement(is_warmup) == ~is_warmup /\ replacement # <<>>
ActiveReader(is_warmup) ==
  IF UseReplacement(is_warmup) THEN replacement[1] ELSE traces[1]

\* cpu.sim_instr()
SimInstr == num_retired - begin_instr

\* std::accumulate(phase_complete, true, logical_and)
AllComplete == \A c \in Cpus : phase_complete[c]

\* lines 70-74: the consecutive-stall counter after a cycle of the given progress
StallCount(stalled, progress) == IF progress = 0 THEN stalled + 1 ELSE 0

\* faulty variant: the threshold is compared with >
Deadlocked_gt(stalled) == stalled > DEADLOCK_CYCLE

\* line 76
Deadlocked(stalled) == stalled >= DEADLOCK_CYCLE

\* the comparator of lines 81-82: no element of ops precedes one of smaller leap
Ascending(ops, lp) ==
  \A i, j \in 1..Len(ops) : i < j => lp[ops[i]] <= lp[ops[j]]

\* faulty variant: the list is left as it is
SortResults_none(ops, lp) == {ops}

\* faulty variant: a sort that may overwrite one element with a copy of another
SortResults_dup(ops, lp) ==
  {p \in [1..Len(ops) -> Range(ops)] :
     \A i, j \in 1..Len(ops) : i < j => ~(lp[p[j]] < lp[p[i]])}

\* lines 81-82: the orders std::sort may leave the dispatch list in: the
\* rearrangements of the list in which no element precedes a smaller one
SortResults(ops, lp) ==
  {p \in {[i \in 1..Len(ops) |-> ops[f[i]]] : f \in Permutations(1..Len(ops))} :
     \A i, j \in 1..Len(ops) : i < j => ~(lp[p[j]] < lp[p[i]])}

\* faulty variant: the dispatch follows the leap values as they change
DispatchOrder_resort(ops, lp) == CHOOSE p \in SortResults(ops, lp) : TRUE

\* lines 65-68: the order in which the range-for calls _operate: the local
\* list as it stands when the loop starts; lp, the leap values the calls
\* leave behind, moves no element
DispatchOrder(ops, lp) == ops

\* number of times Operable o occurs in the list ops
Occurrences(ops, o) == Cardinality({i \in 1..Len(ops) : ops[i] = o})

\* the log of a phase in which no cycle has run
NoCycle(ops) ==
  [n |-> 0, zero_run |-> 0, resorted |-> FALSE,
   calls |-> [o \in Range(ops) |-> 0], pulled |-> 0,
   dispatch |-> <<>>, end_calls |-> [o \in Range(ops) |-> 0], span |-> 0]

\* faulty variant: the stall counter outlives the phase
InitialStall_carry(prev) == prev

\* line 59: the stall counter a phase starts with; prev is the value the
\* phase before ended with
InitialStall(prev) == 0

\* faulty variant: a phase of target length 0 is complete before its first cycle
InitialComplete_len(length) == length = 0

\* line 60: the completion flag a phase of the given target length starts with
InitialComplete(length) == FALSE

\* faulty variant: the snapshot counter runs in a warmup phase as well
RECURSIVE FeedLoop_nowarm(_, _, _, _, _)
FeedLoop_nowarm(st, pkt_count, is_warmup, snapshot_rate, retired) ==
  IF ~Eof(st.rd) /\ pkt_count > 0
    THEN LET pushed == Append(st.iq, ReadRecord(st.rd))
             take == st.ctr > snapshot_rate
             st1 == [iq |-> pushed,
                     rd |-> Advance(st.rd),
                     ctr |-> IF take THEN 0 ELSE st.ctr + 1,
                     snaps |-> IF take
                                 THEN Append(st.snaps, [end_instrs |-> retired])
                                 ELSE st.snaps,
                     pulled |-> st.pulled + 1]
         IN FeedLoop_nowarm(st1, pkt_count - 1, is_warmup, snapshot_rate, retired)
    ELSE st

\* faulty variant: the feed loop runs once more than there is room
RECURSIVE FeedLoop_over(_, _, _, _, _)
FeedLoop_over(st, pkt_count, is_warmup, snapshot_rate, retired) ==
  IF ~Eof(st.rd) /\ pkt_count >= 0
    THEN LET pushed == Append(st.iq, ReadRecord(st.rd))
             take == ~is_warmup /\ st.ctr > snapshot_rate
             st1 == [iq |-> pushed,
                     rd |-> Advance(st.rd),
                     ctr |-> IF is_warmup THEN st.ctr
                             ELSE IF take THEN 0 ELSE st.ctr + 1,
                     snaps |-> IF take
                                 THEN Append(st.snaps, [end_instrs |-> retired])
                                 ELSE st.snaps,
                     pulled |-> st.pulled + 1]
         IN FeedLoop_over(st1, pkt_count - 1, is_warmup, snapshot_rate, retired)
    ELSE st

\* lines 95-118: the trace feed of one cycle.  st holds the input queue, the
\* reader, the snapshot counter, the snapshots and the number of records pulled.
RECURSIVE FeedLoop(_, _, _, _, _)
FeedLoop(st, pkt_count, is_warmup, snapshot_rate, retired) ==
  IF ~Eof(st.rd) /\ pkt_count > 0
    THEN LET pushed == Append(st.iq, ReadRecord(st.rd))
             take == ~is_warmup /\ st.ctr > snapshot_rate
             st1 == [iq |-> pushed,
                     rd |-> Advance(st.rd),
                     ctr |-> IF is_warmup THEN st.ctr
                             ELSE IF take THEN 0 ELSE st.ctr + 1,
                     snaps |-> IF take
                                 THEN Append(st.snaps, [end_instrs |-> retired])
                                 ELSE st.snaps,
                     pulled |-> st.pulled + 1]
         IN FeedLoop(st1, pkt_count - 1, is_warmup, snapshot_rate, retired)
    ELSE st

\* faulty variant: the target length has to be exceeded
NextPhaseComplete_gt(complete, eof, sim_instr, length) ==
  (complete \/ eof) \/ (sim_instr > length)

\* faulty variant: the end of the trace does not complete the core
NextPhaseComplete_noeof(complete, eof, sim_instr, length) ==
  complete \/ (sim_instr >= length)

\* lines 120-128: the completion flag of a core after the cycle
NextPhaseComplete(complete, eof, sim_instr, length) ==
  (complete \/ eof) \/ (sim_instr >= length)

\* faulty variant: every cycle notifies the Operables
EndPhaseCalls_always(calls, before, after, ops) ==
  [o \in DOMAIN calls |-> calls[o] + Occurrences(ops, o)]

\* lines 131-135: the end_phase calls every Operable has received for the
\* core, after a cycle that took the completion flags from before to after
EndPhaseCalls(calls, before, after, ops) ==
  IF after # before
    THEN [o \in DOMAIN calls |-> calls[o] + Occurrences(ops, o)]
    ELSE calls

\* faulty variant: the statistics of a warmup phase are kept as well
PushResult_all(res, is_warmup, st) == Append(res, st)

\* main, lines 179-180
PushResult(res, is_warmup, st) == IF ~is_warmup THEN Append(res, st) ELSE res

\* faulty variant: the final snapshot is put in front of the interval snapshots
WithFinalSnapshot_front(res) ==
  [res EXCEPT ![1].snapshots = <<res[1].sim_cpu_stats[1]>> \o @]

\* faulty variant: the final snapshot goes to the result of the last phase
WithFinalSnapshot_last(res) ==
  [res EXCEPT ![Len(res)].snapshots = Append(@, res[Len(res)].sim_cpu_stats[1])]

\* main, line 183
WithFinalSnapshot(res) ==
  [res EXCEPT ![1].snapshots = Append(@, res[1].sim_cpu_stats[1])]

\* the state in which champsim::main is entered with the given Operables,
\* phases and replacement reader
RunInitPhases(ops, phs, repl) ==
  /\ env_ops = ops
  /\ phases = phs
  /\ traces = <<[pos |-> 0, len |-> TraceLen, base |-> 0]>>
  /\ replacement = repl
  /\ pc = "start"
  /\ phase_idx = 1
  /\ operables = ops
  /\ leap = [o \in Range(ops) |-> 0]
  /\ stalled_cycle = 0
  /\ phase_complete = [c \in Cpus |-> FALSE]
  /\ input_queue = <<>>
  /\ num_retired = 0
  /\ begin_instr = 0
  /\ trace_iteration_counter = 0
  /\ stats = [name |-> "", snapshots |-> <<>>, sim_cpu_stats |-> <<>>]
  /\ results = <<>>
  /\ initialized = [o \in Range(ops) |-> 0]
  /\ cyc = NoCycle(ops)

\* the caller's phases (main.cc:133-135)
RunInit(ops, warmup_len, sim_len, rate, repl) ==
  RunInitPhases(ops,
                <<[name |-> "Warmup", is_warmup |-> TRUE, length |-> warmup_len,
                   snapshot_rate |-> 0],
                  [name |-> "Simulation", is_warmup |-> FALSE, length |-> sim_len,
                   snapshot_rate |-> rate]>>,
                repl)

\* no simulation is running: the state of the driver while only the
\* prefetcher is exercised
NoRun ==
  /\ env_ops = <<>>
  /\ phases = <<>>
  /\ traces = <<>>
  /\ replacement = <<>>
  /\ pc = "idle"
  /\ phase_idx = 1
  /\ operables = <<>>
  /\ leap = <<>>
  /\ stalled_cycle = 0
  /\ phase_complete = [c \in Cpus |-> FALSE]
  /\ input_queue = <<>>
  /\ num_retired = 0
  /\ begin_instr = 0
  /\ trace_iteration_counter = 0
  /\ stats = [name |-> "", snapshots |-> <<>>, sim_cpu_stats |-> <<>>]
  /\ results = <<>>
  /\ initialized = <<>>
  /\ cyc = NoCycle(<<>>)

\* main, lines 173-174: every Operable of the environment is initialized
Initialize ==
  /\ pc = "start"
  /\ pc' = "main"
  /\ initialized' = [o \in Ops |-> initialized[o] + Occurrences(env_ops, o)]
  /\ UNCHANGED <<env_ops, phases, traces, replacement, phase_idx, operables, leap,
                 stalled_cycle, phase_complete, input_queue, num_retired,
                 begin_instr, trace_iteration_counter, stats, results, cyc>>
  /\ UNCHANGED fdipVars

\* do_phase, lines 43-60: the prologue of a phase
BeginPhase ==
  /\ pc = "main"
  /\ phase_idx <= Len(phases)
  /\ pc' = "loop"
  /\ operables' = env_ops
  /\ trace_iteration_counter' = 0
  /\ stats' = [name |-> Phase.name, snapshots |-> <<>>, sim_cpu_stats |-> <<>>]
  /\ begin_instr' = num_retired          \* O3_CPU::begin_phase
  /\ stalled_cycle' = InitialStall(stalled_cycle)
  /\ phase_complete' = [c \in Cpus |-> InitialComplete(Phase.length)]
  /\ cyc' = [NoCycle(env_ops) EXCEPT !.span = cyc.span]
  /\ UNCHANGED <<env_ops, phases, traces, replacement, phase_idx, leap,
                 input_queue, num_retired, results, initialized>>
  /\ UNCHANGED fdipVars

\* do_phase, lines 61-142: one iteration of the phase loop.  prog is the
\* progress each Operable's _operate returns, new_leap the leap_operation it
\* is left with, k the number of instructions the core takes from its input
\* queue and retires.
Cycle(prog, new_leap, k) ==
  /\ pc = "loop"
  /\ ~AllComplete
  /\ \E order \in {DispatchOrder(operables, new_leap)} :
     \E progress \in {SumSeq([i \in 1..Len(order) |-> prog[order[i]]])} :
     LET is_warmup == Phase.is_warmup
         stalled == StallCount(stalled_cycle, progress)
         iq_after == SubSeq(input_queue, k + 1, Len(input_queue))
         retired == num_retired + k
         log == [n |-> Min(cyc.n + 1, 2),
                 zero_run |-> IF progress = 0 THEN cyc.zero_run + 1 ELSE 0,
                 resorted |-> order # env_ops,
                 calls |-> [o \in Ops |-> Occurrences(order, o)],
                 pulled |-> cyc.pulled,
                 dispatch |-> order,
                 end_calls |-> cyc.end_calls,
                 span |-> IF progress = 0 THEN cyc.span + 1 ELSE 0]
     IN /\ leap' = new_leap
        /\ num_retired' = retired
        /\ stalled_cycle' = stalled
        /\ IF Deadlocked(stalled)
             THEN /\ pc' = "aborted"
                  /\ input_queue' = iq_after
                  /\ cyc' = log
                  /\ UNCHANGED <<operables, traces, replacement, phase_complete,
                                 trace_iteration_counter, stats>>
             ELSE \E sorted \in SortResults(operables, new_leap),
                     fed \in {FeedLoop([iq |-> iq_after,
                                        rd |-> ActiveReader(is_warmup),
                                        ctr |-> trace_iteration_counter,
                                        snaps |-> stats.snapshots,
                                        pulled |-> cyc.pulled],
                                       IN_QUEUE_SIZE - Len(iq_after),
                                       is_warmup, Phase.snapshot_rate, retired)} :
                     /\ pc' = "loop"
                     /\ operables' = sorted
                     /\ input_queue' = fed.iq
                     /\ IF UseReplacement(is_warmup)
                          THEN replacement' = <<fed.rd>> /\ traces' = traces
                          ELSE traces' = <<fed.rd>> /\ replacement' = replacement
                     /\ trace_iteration_counter' = fed.ctr
                     /\ stats' = [stats EXCEPT !.snapshots = fed.snaps]
                     /\ phase_complete' =
                          [c \in Cpus |->
                             NextPhaseComplete(phase_complete[c], Eof(fed.rd),
                                               retired - begin_instr, Phase.length)]
                     /\ cyc' = [log EXCEPT
                                  !.pulled = fed.pulled,
                                  !.end_calls = EndPhaseCalls(@, phase_complete,
                                                              phase_complete', sorted)]
  /\ UNCHANGED <<env_ops, phases, phase_idx, begin_instr, results, initialized>>
  /\ UNCHANGED fdipVars

\* do_phase, lines 144-166, and main, lines 179-180: the phase returns its
\* statistics; main keeps them unless the phase is a warmup
EndPhase ==
  /\ pc = "loop"
  /\ AllComplete
  /\ pc' = "main"
  /\ phase_idx' = phase_idx + 1
  /\ stats' = [stats EXCEPT !.sim_cpu_stats = <<[end_instrs |-> num_retired]>>]
  /\ results' = PushResult(results, Phase.is_warmup, stats')
  /\ UNCHANGED <<env_ops, phases, traces, replacement, operables, leap,
                 stalled_cycle, phase_complete, input_queue, num_retired,
                 begin_instr, trace_iteration_counter, initialized, cyc>>
  /\ UNCHANGED fdipVars

\* main, lines 183-185: the final snapshot, then return
Finish ==
  /\ pc = "main"
  /\ phase_idx > Len(phases)
  /\ Len(results) > 0
  /\ pc' = "done"
  /\ results' = WithFinalSnapshot(results)
  /\ UNCHANGED <<env_ops, phases, traces, replacement, phase_idx, operables, leap,
                 stalled_cycle, phase_complete, input_queue, num_retired,
                 begin_instr, trace_iteration_counter, stats, initialized, cyc>>
  /\ UNCHANGED fdipVars

\* the inputs of a cycle: the core reports one progress value and the other
\* Operables another, the core reports progress whenever it retires, and
\* a cycle without any progress is taken only below max_stall stalled cycles
CycleInputs(progs, leaps, max_stall) ==
  \E prog \in {[o \in Ops |-> IF o = CpuOp THEN a ELSE b] : a, b \in progs},
     new_leap \in [Ops -> leaps],
     k \in {n \in RetireCounts : n <= Len(input_queue)} :
       /\ k > 0 => prog[CpuOp] > 0
       /\ (\A o \in Ops : prog[o] = 0) => stalled_cycle < max_stall
       /\ Cycle(prog, new_leap, k)

(***************************************************************************)
(* Runs of warmup and simulation phase over the core, for every length,    *)
(* snapshot interval and replacement reader; zero-progress runs are        *)
(* followed up to MaxStall cycles.                                         *)
(***************************************************************************)
Replacements == {<<>>, <<[pos |-> 0, len |-> ReplLen, base |-> 100]>>}

InitRun ==
  /\ FdipInit
  /\ \E w \in {0, 1}, n \in {1, TraceLen + ReplLen + 1}, rate \in 0..MaxRate,
        repl \in Replacements :
       RunInit(<<CpuOp>>, w, n, rate, repl)

RunCycle == CycleInputs(Progresses, {0}, MaxStall)

NextRun == Initialize \/ BeginPhase \/ RunCycle \/ EndPhase \/ Finish
SpecRun == InitRun /\ [][NextRun]_vars

(***************************************************************************)
(* A run over the core and NumOthers other Operables, whose leap values    *)
(* change from cycle to cycle.                                             *)
(***************************************************************************)
EnvOps == [i \in 1..(1 + NumOthers) |-> i]

InitOrder ==
  /\ FdipInit
  /\ \E n \in {1, TraceLen + 1} : RunInit(EnvOps, 1, n, MaxRate, <<>>)

OrderCycle == CycleInputs(Progresses, Leaps, MaxStall)

NextOrder == Initialize \/ BeginPhase \/ OrderCycle \/ EndPhase \/ Finish
SpecOrder == InitOrder /\ [][NextOrder]_vars

(***************************************************************************)
(* A run of four phases, warmup and measured phases alternating, in which  *)
(* the warmup phases have a snapshot interval as well.                     *)
(***************************************************************************)
SeqPhases(warmup_len, rate) ==
  <<[name |-> "Warmup", is_warmup |-> TRUE, length |-> warmup_len,
     snapshot_rate |-> rate],
    [name |-> "A", is_warmup |-> FALSE, length |-> 1, snapshot_rate |-> rate],
    [name |-> "Warmup", is_warmup |-> TRUE, length |-> 1, snapshot_rate |-> rate],
    [name |-> "B", is_warmup |-> FALSE, length |-> 1, snapshot_rate |-> rate]>>

InitSeq ==
  /\ FdipInit
  /\ \E w \in {0, 1, TraceLen + 1}, rate \in 0..MaxRate :
       RunInitPhases(EnvOps, SeqPhases(w, rate), <<>>)

SeqCycle == CycleInputs(Progresses, {0}, MaxStall)

NextSeq == Initialize \/ BeginPhase \/ SeqCycle \/ EndPhase \/ Finish
SpecSeq == InitSeq /\ [][NextSeq]_vars

(***************************************************************************)
(* A run over the core alone, in which zero-progress runs are followed to  *)
(* the deadlock threshold.                                                 *)
(***************************************************************************)
InitStall ==
  /\ FdipInit
  /\ \E w \in {0, 1} : RunInit(<<CpuOp>>, w, TraceLen + 1, MaxRate, <<>>)

StallCycle == CycleInputs(Progresses, {0}, DEADLOCK_CYCLE)

NextStall == Initialize \/ BeginPhase \/ StallCycle \/ EndPhase \/ Finish
SpecStall == InitStall /\ [][NextStall]_vars

\* a cycle in which the core takes an instruction from its input queue and
\* retires it
RetiringCycle ==
  /\ Len(input_queue) > 0
  /\ \E prog \in [Ops -> Progresses \ {0}] : Cycle(prog, [o \in Ops |-> 0], 1)

\* the same run, in which main and do_phase always take their next step
SpecLive == InitStall /\ [][NextStall]_vars /\ WF_vars(NextStall)

(***************************************************************************)
(* A run over the core alone of a warmup and three measured phases, the    *)
(* measured phases long enough to take interval snapshots of their own.    *)
(***************************************************************************)
FinalPhases(len_a, len_b, rate) ==
  <<[name |-> "Warmup", is_warmup |-> TRUE, length |-> 0, snapshot_rate |-> rate],
    [name |-> "A", is_warmup |-> FALSE, length |-> len_a, snapshot_rate |-> rate],
    [name |-> "B", is_warmup |-> FALSE, length |-> len_b, snapshot_rate |-> rate],
    [name |-> "C", is_warmup |-> FALSE, length |-> 1, snapshot_rate |-> rate]>>

InitFinal ==
  /\ FdipInit
  /\ \E len_a \in {1, 2}, rate \in 0..MaxRate :
       RunInitPhases(<<CpuOp>>, FinalPhases(len_a, 2, rate), <<>>)

FinalCycle == CycleInputs(Progresses, {0}, MaxStall)

NextFinal == Initialize \/ BeginPhase \/ FinalCycle \/ EndPhase \/ Finish
SpecFinal == InitFinal /\ [][NextFinal]_vars

(***************************************************************************)
(* Small-address specification: one cache, every address of a few blocks.  *)
(***************************************************************************)
\* branch targets: the first address of every block, and an address inside block 1
Addrs == {b * BLOCK_SIZE : b \in 0..MaxBlock} \cup {BLOCK_SIZE + 4}
\* demand addresses: an aligned and an unaligned address of block 0
DemandAddrs == {0, 4}
Sizes == {8}
\* occupancies: empty, just below half, half, full
Occupancies == {0, Shr1(MSHR_SIZE) - 1, Shr1(MSHR_SIZE), MSHR_SIZE}

TargetsOf(q) == {q[i][2] : i \in 1..Len(q)}

Branch ==
  \E t \in Addrs, s \in Sizes : BranchOperate(1, t, s)

Demand ==
  \E a \in DemandAddrs, h \in {0, 1}, occ \in Occupancies :
     CacheOperate(1, a, h, occ)

Pump ==
  \E occ \in Occupancies, resident \in SUBSET TargetsOf(prefetch_queue) :
     CycleOperate(1, occ, resident)

Init == FdipInit /\ NoRun
Next == Branch \/ Demand \/ Pump
Spec == Init /\ [][Next]_vars

(***************************************************************************)
(* Two caches running the prefetcher, aligned addresses only.              *)
(***************************************************************************)
SharedAddrs == {b * BLOCK_SIZE : b \in 1..MaxBlock}

SharedBranch ==
  \E c \in Caches, t \in SharedAddrs, s \in Sizes : BranchOperate(c, t, s)

SharedDemand ==
  \E c \in Caches, occ \in {0, MSHR_SIZE} : CacheOperate(c, 0, 0, occ)

SharedPump ==
  \E c \in Caches, occ \in {0, MSHR_SIZE} : CycleOperate(c, occ, {})

NextShared == SharedBranch \/ SharedDemand \/ SharedPump
SpecShared == Init /\ [][NextShared]_vars

(***************************************************************************)
(* Queue-filling specification: branches resolve to ever new blocks, so    *)
(* that the pending queue runs full and overflows.                         *)
(***************************************************************************)
Max(S) == CHOOSE x \in S : \A y \in S : y <= x

KnownBlocks ==
  {prefetch_queue[i][1] : i \in 1..Len(prefetch_queue)}
    \cup {BlockOf(a) : a \in Range(recent_prefetches)} \cup {0}

FreshBlock == Max(KnownBlocks) + BLOCK_SIZE

FillBranch ==
  /\ FreshBlock <= MaxFresh * BLOCK_SIZE
  /\ \E s \in Sizes : BranchOperate(1, FreshBlock + 4, s)

FillDemand == CacheOperate(1, 0, 0, 0)

\* the miss-status registers stay saturated until the queue is nearly full
FillPump ==
  \E occ \in (IF Len(prefetch_queue) >= MAX_PFETCHQ_ENTRIES - 1
                THEN {0, MSHR_SIZE} ELSE {MSHR_SIZE}) :
     CycleOperate(1, occ, {})

NextFill == FillBranch \/ FillDemand \/ FillPump
SpecFill == Init /\ [][NextFill]_vars

(***************************************************************************)
(* Properties of the prefetcher.                                           *)
(***************************************************************************)

C2_DedupInSuccession ==
  [][~(/\ last.pf # <<>>
       /\ last'.pf = last.pf
       /\ last.pf[1] \in Range(recent_prefetches))]_vars

\* C6: a pump call with the gate open and a non-empty pending queue removes
\* exactly one entry from the pending queue.
C6_PumpRemovesExactlyOne ==
  [][(/\ last'.op = "cycle"
      /\ last'.occ < MSHR_SIZE \div 2
      /\ Len(prefetch_queue) > 0)
       => Len(prefetch_queue') = Len(prefetch_queue) - 1]_vars

\* C7: a pump call made while the outstanding-miss occupancy is at or above
\* half of the capacity issues no prefetch and leaves the pending queue and
\* the recent-issue filter unchanged.
C7_AdmissionControl ==
  [][(last'.op = "cycle" /\ last'.occ >= MSHR_SIZE \div 2)
       => /\ last'.pf = <<>>
          /\ prefetch_queue' = prefetch_queue
          /\ recent_prefetches' = recent_prefetches]_vars

\* the pump has just run against a closed gate with work pending
C7_Witness ==
  /\ last.op = "cycle" /\ last.occ = MSHR_SIZE \div 2
  /\ Len(prefetch_queue) > 0
  /\ Len(recent_prefetches) > 0

C9_PerInstanceOwnership ==
  [][\A c \in Caches :
       last'.cache # c => /\ QueueOf(c)' = QueueOf(c)
                          /\ FilterOf(c)' = FilterOf(c)]_vars

\* the blocks pending in the queue q
PendingBlocks(q) == {q[i][1] : i \in 1..Len(q)}

\* lines 58-63: the entry the pump examines once it has discarded the
\* resident entries in front of it: <<>> if there is none, else <<entry>>
ExaminedEntry(q, resident) ==
  LET idx == {i \in 1..Len(q) : q[i][2] \notin resident}
  IN IF idx = {} THEN <<>>
     ELSE <<q[CHOOSE i \in idx : \A j \in idx : i <= j]>>

\* C23: a branch-resolution event whose target block is zero, or pending in
\* the queue, or in the recent-issue filter leaves the queue and the filter
\* unchanged and issues no prefetch.
C23_BranchFiltering ==
  [][(/\ last'.op = "branch"
      /\ \/ BlockOf(last'.addr) = 0
         \/ BlockOf(last'.addr) \in PendingBlocks(prefetch_queue)
         \/ BlockOf(last'.addr) \in Range(recent_prefetches))
       => /\ prefetch_queue' = prefetch_queue
          /\ recent_prefetches' = recent_prefetches
          /\ last'.pf = <<>>]_vars

\* a branch has resolved to a block that is in the filter and not pending,
\* with other blocks pending
C23_Witness ==
  /\ last.op = "branch"
  /\ BlockOf(last.addr) \in Range(recent_prefetches)
  /\ BlockOf(last.addr) \notin PendingBlocks(prefetch_queue)
  /\ Len(prefetch_queue) > 0

\* C24: a pump call with the gate open and a head entry whose target is
\* resident removes that entry, calls prefetch_line for no such block and
\* does not add the block to the recent-issue filter.
C24_ResidentHead ==
  [][(/\ last'.op = "cycle"
      /\ last'.occ < MSHR_SIZE \div 2
      /\ Len(prefetch_queue) > 0
      /\ Head(prefetch_queue)[2] \in last'.resident)
       => LET block == Head(prefetch_queue)[1]
          IN /\ block \notin PendingBlocks(prefetch_queue')
             /\ block \notin Range(last'.pf)
             /\ block \in Range(recent_prefetches')
                  => block \in Range(recent_prefetches)]_vars

\* the pump has discarded a resident head and issued the entry behind it
C24_Witness ==
  /\ last.op = "cycle"
  /\ last.popped = 2
  /\ last.resident # {}
  /\ last.pf # <<>>
  /\ last.pf[1] \notin last.resident

C26_FilterAligned ==
  \A i \in 1..Len(recent_prefetches) :
     recent_prefetches[i] = BlockOf(recent_prefetches[i])

C28_ResultIgnored ==
  [][(last'.pf # <<>> /\ ~last'.issued)
       => /\ recent_prefetches' # <<>>
          /\ recent_prefetches'[Len(recent_prefetches')] = last'.pf[1]
          /\ last'.op = "cycle"
               => /\ last'.pf[1] \notin PendingBlocks(prefetch_queue')
                  /\ Len(prefetch_queue') < Len(prefetch_queue)]_vars

\* the pump's prefetch_line call has returned false
C28_Witness ==
  /\ last.op = "cycle"
  /\ last.pf # <<>> /\ ~last.issued
  /\ last.pf[1] \in Range(recent_prefetches)
  /\ last.pf[1] \notin PendingBlocks(prefetch_queue)

(***************************************************************************)
(* Properties of the phase driver.                                         *)
(***************************************************************************)

\* C3: a non-warmup phase with snapshot interval S > 0 that has pulled F > 0
\* records ends with floor(F / S) interval snapshots.
C3_SnapshotCadence ==
  (/\ pc = "loop" /\ AllComplete
   /\ ~Phase.is_warmup
   /\ Phase.snapshot_rate > 0
   /\ cyc.pulled > 0)
    => Len(stats.snapshots) = cyc.pulled \div Phase.snapshot_rate

\* C4: with a single Operable the process aborts in the 500th consecutive
\* zero-progress cycle of a phase and in no other cycle, and a cycle with
\* progress leaves the consecutive-stall counter at zero.
C4_DeadlockAt500 ==
  /\ (pc = "aborted") <=> (cyc.zero_run = 500)
  /\ cyc.zero_run <= 500
  /\ (cyc.n > 0 /\ cyc.zero_run = 0) => stalled_cycle = 0

\* the abort has fired after 500 zero-progress cycles with the trace not exhausted
C4_Witness ==
  /\ pc = "aborted"
  /\ cyc.zero_run = 500
  /\ Len(env_ops) = 1
  /\ ~Eof(traces[1])

\* C5: in a phase whose target length exceeds the number of trace records, a
\* cycle leaves the core's completion flag true exactly when it finds the
\* active reader exhausted, whatever the core has retired.
C5_CoupledTermination ==
  [][(/\ pc = "loop" /\ ~AllComplete /\ pc' = "loop"
      /\ Phase.length > TraceLen + ReplLen)
       => (phase_complete'[0] <=> Eof(ActiveReader(Phase.is_warmup))')]_vars

\* the phase has ended on trace exhaustion with instructions left in the input queue
C5_Witness ==
  /\ pc = "loop" /\ AllComplete
  /\ Phase.length > TraceLen + ReplLen
  /\ Eof(ActiveReader(Phase.is_warmup))
  /\ SimInstr < ActiveReader(Phase.is_warmup).len
  /\ Len(input_queue) > 0

\* C10: in every cycle of a phase the operate step of every Operable of the
\* environment is called exactly once.
C10_EachOperableOncePerCycle ==
  cyc.n > 0 => \A o \in Ops : cyc.calls[o] = 1

\* a cycle has been dispatched in an order the re-sort had changed
C10_Witness ==
  /\ cyc.n = 2
  /\ cyc.resorted
  /\ \A o \in Ops : cyc.calls[o] = 1

\* a step of the phase loop: one cycle
CycleStep == pc = "loop" /\ ~AllComplete

\* C11 as stated: in every cycle, the first cycle of a phase included, the
\* Operables are dispatched in an order that is ascending in their leap
\* values as they stand at the start of the cycle.
C11_AscendingEveryCycle ==
  [][CycleStep => Ascending(cyc'.dispatch, leap)]_vars

\* C11, amended: in every cycle but the first of a phase, the Operables are
\* dispatched in an order that is ascending in their leap values as they
\* stand at the start of the cycle.
C11_AscendingAfterFirstCycle ==
  [][(CycleStep /\ cyc.n > 0) => Ascending(cyc'.dispatch, leap)]_vars

\* a later cycle of the second phase was dispatched in an order that differs
\* from the environment's
C11_Witness ==
  /\ phase_idx = 2 /\ pc = "loop"
  /\ cyc.n = 2
  /\ cyc.dispatch # env_ops

\* C12: a cycle that changes leap values dispatches in the order the list
\* had before the cycle, whatever the new values are, and leaves the list
\* ascending in the new values for the next cycle.
C12_OneCycleLag ==
  [][(CycleStep /\ leap' # leap)
       => /\ cyc'.dispatch = operables
          /\ pc' = "loop" => Ascending(operables', leap')]_vars

\* a cycle was dispatched in an order that is not ascending in the leap
\* values it left behind, and the list has been reordered for the next cycle
C12_Witness ==
  /\ pc = "loop" /\ cyc.n > 0
  /\ ~Ascending(cyc.dispatch, leap)
  /\ operables # cyc.dispatch
  /\ Ascending(operables, leap)

\* C13: a cycle of a warmup phase pulls its records from the reader indexed
\* for the core and leaves the replacement reader alone; a cycle of a
\* non-warmup phase with a replacement reader pulls its records from the
\* replacement reader, completes the core on the replacement reader's end of
\* stream, and does not advance the indexed reader.
C13_ActiveReaderSelection ==
  [][(CycleStep /\ pc' = "loop")
       => LET n == cyc'.pulled - cyc.pulled
              first == Len(input_queue') - n
              PulledFrom(rd, rd_after) ==
                /\ rd_after = [rd EXCEPT !.pos = rd.pos + n]
                /\ \A i \in 1..n : input_queue'[first + i] = rd.base + rd.pos + i
          IN /\ Phase.is_warmup
                  => /\ replacement' = replacement
                     /\ PulledFrom(traces[1], traces'[1])
             /\ (~Phase.is_warmup /\ replacement # <<>>)
                  => /\ traces' = traces
                     /\ PulledFrom(replacement[1], replacement'[1])
                     /\ Eof(replacement'[1]) => phase_complete'[0]
                     /\ (phase_complete'[0] /\ SimInstr' < Phase.length)
                          => Eof(replacement'[1])]_vars

\* a simulation phase has ended on the end of the replacement trace, with
\* records of the indexed trace left unread
C13_Witness ==
  /\ pc = "loop" /\ AllComplete
  /\ ~Phase.is_warmup /\ replacement # <<>>
  /\ replacement[1].pos > 0 /\ Eof(replacement[1])
  /\ ~Eof(traces[1])
  /\ SimInstr < Phase.length

\* C14: main calls initialize on every Operable exactly once before any
\* phase, runs the phases in the given order, and its results hold one entry
\* for every non-warmup phase that has run, in phase order, and none for a
\* warmup phase.
C14_RunSequencing ==
  LET ran == SubSeq(phases, 1, phase_idx - 1)
      kept == SelectSeq(ran, LAMBDA ph : ~ph.is_warmup)
  IN /\ pc = "start"
          => /\ \A o \in Ops : initialized[o] = 0
             /\ phase_idx = 1 /\ stats.name = "" /\ results = <<>>
     /\ pc \in {"main", "loop", "aborted", "done"}
          => \A o \in Ops : initialized[o] = 1
     /\ pc = "loop" => stats.name = Phase.name
     /\ pc = "done" => phase_idx = Len(phases) + 1
     /\ Len(results) = Len(kept)
     /\ \A i \in 1..Len(kept) : results[i].name = kept[i].name

\* a run of four phases has returned two results, for the phases A and B
C14_Witness ==
  /\ pc = "done"
  /\ Len(phases) = 4
  /\ Len(results) = 2
  /\ results[1].name = "A" /\ results[2].name = "B"
  /\ \A o \in Ops : initialized[o] = 1

\* C15: a phase run with snapshot interval 0 captures no interval snapshot,
\* however many records it pulls and whether or not it is a warmup phase.
C15_ZeroIntervalDisables ==
  (pc = "loop" /\ Phase.snapshot_rate = 0) => stats.snapshots = <<>>

\* C16 as stated: every phase run over a finite trace comes to a cycle that
\* leaves all cores complete or fires the deadlock abort, even when the
\* Operables keep reporting progress while the core retires nothing.
C16_PhaseEnds ==
  (pc = "loop") ~> ((pc = "loop" /\ AllComplete) \/ pc = "aborted")

\* C16, amended: if the core does not forever leave a non-empty input queue
\* untouched, every phase run over a finite trace comes to a cycle that
\* leaves all cores complete or fires the deadlock abort.
C16_PhaseEndsIfCoreRetires ==
  WF_vars(RetiringCycle)
    => ((pc = "loop") ~> ((pc = "loop" /\ AllComplete) \/ pc = "aborted"))

\* the simulation phase has completed on the end of the trace, short of its
\* target length
C16_Witness ==
  /\ pc = "loop" /\ AllComplete
  /\ phase_idx = 2
  /\ Eof(traces[1])
  /\ SimInstr < Phase.length
  /\ cyc.n = 2

\* C17: when main returns, the snapshot sequence of the measured phase is
\* the interval snapshots the phase returned, unchanged, followed by exactly
\* one final snapshot that equals the phase's end-of-phase statistics.
C17_FinalSnapshot ==
  pc = "done"
    => LET s == results[1].snapshots
       IN /\ Len(results) = 1
          /\ Len(s) = Len(stats.snapshots) + 1
          /\ SubSeq(s, 1, Len(s) - 1) = stats.snapshots
          /\ s[Len(s)] = results[1].sim_cpu_stats[1]
          /\ s[Len(s)].end_instrs = num_retired

\* main has returned a measured phase with interval snapshots, the last of
\* them taken before the phase's last instruction retired
C17_Witness ==
  /\ pc = "done"
  /\ Len(results[1].snapshots) >= 3
  /\ results[1].snapshots[1].end_instrs < num_retired

\* C18: during a warmup phase the snapshot counter stays at zero and no
\* snapshot is appended, for any snapshot interval and any number of
\* records pulled.
C18_WarmupCapturesNothing ==
  (pc = "loop" /\ Phase.is_warmup)
    => /\ trace_iteration_counter = 0
       /\ stats.snapshots = <<>>

\* a warmup phase with a positive snapshot interval has pulled more records
\* than a measured phase pulls before its first snapshot
C18_Witness ==
  /\ pc = "loop" /\ Phase.is_warmup
  /\ Phase.snapshot_rate > 0
  /\ cyc.pulled >= Phase.snapshot_rate + 2

\* C19: within a phase every Operable has received end_phase for the core
\* once if the core's completion flag is set and not at all if it is not:
\* the calls are made in the cycle that sets the flag, and in no other.
C19_EndPhaseOnce ==
  /\ pc = "loop"
       => \A o \in Ops : cyc.end_calls[o] = IF phase_complete[0] THEN 1 ELSE 0
  /\ (pc \in {"main", "done"} /\ phase_idx > 1)
       => \A o \in Ops : cyc.end_calls[o] = 1

\* a phase of several cycles has completed and each of the Operables, in
\* their re-sorted order, has been notified once
C19_Witness ==
  /\ pc = "loop" /\ AllComplete
  /\ cyc.n = 2
  /\ Len(env_ops) >= 2
  /\ operables # env_ops
  /\ \A o \in Ops : cyc.end_calls[o] = 1

\* C20: a cycle pulls min(spare input-queue capacity, records remaining in
\* the active reader) records and appends them to the input queue in trace
\* order; the queue stays within its capacity and holds no record twice.
C20_TraceFeed ==
  [][(CycleStep /\ pc' = "loop")
       => LET k == num_retired' - num_retired
              kept == SubSeq(input_queue, k + 1, Len(input_queue))
              rd == ActiveReader(Phase.is_warmup)
              n == cyc'.pulled - cyc.pulled
          IN /\ n = Min(IN_QUEUE_SIZE - Len(kept), rd.len - rd.pos)
             /\ input_queue' = kept \o [i \in 1..n |-> rd.base + rd.pos + i]
             /\ ActiveReader(Phase.is_warmup)' = [rd EXCEPT !.pos = rd.pos + n]
             /\ Len(input_queue') <= IN_QUEUE_SIZE
             /\ \A i, j \in 1..Len(input_queue') :
                  i < j => input_queue'[i] < input_queue'[j]]_vars

\* a cycle has refilled the input queue to its capacity behind a record
\* that was left in it, with records left in the reader
C20_Witness ==
  /\ pc = "loop" /\ cyc.n = 2
  /\ Len(input_queue) = IN_QUEUE_SIZE
  /\ cyc.pulled > IN_QUEUE_SIZE
  /\ ~Eof(ActiveReader(Phase.is_warmup))

\* the position of Operable o in the list ops
PositionIn(ops, o) == CHOOSE i \in 1..Len(ops) : ops[i] = o

\* C21: a cycle of an incomplete core sets the completion flag if the core's
\* retired-instruction count for the phase has reached the target length at
\* the cycle's completion check, and, unless the active reader is exhausted,
\* only then.
C21_LengthCompletion ==
  [][(CycleStep /\ pc' = "loop")
       => /\ SimInstr' >= Phase.length => phase_complete'[0]
          /\ (phase_complete'[0] /\ ~Eof(ActiveReader(Phase.is_warmup))')
               => SimInstr' >= Phase.length]_vars

\* a phase of several cycles has completed on reaching its target length,
\* with records left in the reader
C21_Witness ==
  /\ pc = "loop" /\ AllComplete
  /\ cyc.n = 2
  /\ Phase.length > 0
  /\ SimInstr = Phase.length
  /\ ~Eof(ActiveReader(Phase.is_warmup))

\* C22: two Operables with equal leap values keep, in the order the re-sort
\* leaves for the next cycle, the relative order they had in the cycle.
C22_SortStable ==
  [][(CycleStep /\ pc' = "loop")
       => \A a, b \in Ops :
            (/\ leap'[a] = leap'[b]
             /\ PositionIn(operables, a) < PositionIn(operables, b))
              => PositionIn(operables', a) < PositionIn(operables', b)]_vars

\* C29: every phase starts with the stall counter at 0, the counter is the
\* number of zero-progress cycles in a row within the phase, and the abort
\* fires only on 500 of them within one phase, however long the run of
\* zero-progress cycles across the phase boundary is.
C29_StallCounterPerPhase ==
  /\ (pc = "loop" /\ cyc.n = 0) => stalled_cycle = 0
  /\ pc \in {"loop", "aborted"} => stalled_cycle = cyc.zero_run
  /\ pc = "aborted" => cyc.zero_run = 500
  /\ (cyc.span >= 500 /\ cyc.zero_run < 500) => pc # "aborted"

\* a run of 500 zero-progress cycles, the first of them the last cycle of
\* the warmup, has not aborted the measured phase
C29_Witness ==
  /\ pc = "loop" /\ phase_idx = 2
  /\ cyc.span = 500
  /\ cyc.zero_run = 499
  /\ stalled_cycle = 499

\* C30: the first step of a phase is a full cycle, also with a target
\* length of 0 or an exhausted reader: every Operable is called once and the
\* feed pulls min(spare capacity once the core has taken its instructions,
\* records remaining) records; and a phase returns only after every Operable
\* has received end_phase.
C30_AtLeastOneCycle ==
  [][/\ (pc = "loop" /\ cyc.n = 0)
          => /\ cyc'.n = 1
             /\ \A o \in Ops : cyc'.calls[o] = 1
             /\ cyc'.pulled =
                  Min(IN_QUEUE_SIZE - Len(input_queue) + (num_retired' - num_retired),
                      ActiveReader(Phase.is_warmup).len
                        - ActiveReader(Phase.is_warmup).pos)
     /\ (pc = "loop" /\ pc' = "main")
          => /\ cyc.n >= 1
             /\ \A o \in Ops : cyc.calls[o] = 1 /\ cyc.end_calls[o] = 1]_vars

\* a phase of target length 0 has completed in its first cycle, after
\* filling the input queue
C30_Witness ==
  /\ pc = "loop" /\ AllComplete
  /\ Phase.length = 0
  /\ cyc.n = 1
  /\ cyc.pulled = IN_QUEUE_SIZE
  /\ Len(env_ops) >= 2
  /\ \A o \in Ops : cyc.end_calls[o] = 1

\* the non-warmup phases of the run, in phase order
MeasuredPhases == SelectSeq(phases, LAMBDA ph : ~ph.is_warmup)

\* C31: a non-warmup phase hands main its interval snapshots and nothing
\* else, and the step in which main returns appends one entry to the
\* snapshots of results[0], the result of the first non-warmup phase, and
\* leaves the result of every later non-warmup phase as the phase returned it.
C31_FinalSnapshotOnFirstOnly ==
  [][/\ (pc = "loop" /\ pc' = "main" /\ ~Phase.is_warmup)
          => /\ Len(results') = Len(results) + 1
             /\ SubSeq(results', 1, Len(results)) = results
             /\ results'[Len(results')].name = Phase.name
             /\ results'[Len(results')].snapshots = stats.snapshots
     /\ (pc = "main" /\ pc' = "done")
          => /\ Len(MeasuredPhases) >= 1
             /\ Len(results') = Len(MeasuredPhases)
             /\ results'[1].name = MeasuredPhases[1].name
             /\ Len(results'[1].snapshots) = Len(results[1].snapshots) + 1
             /\ SubSeq(results'[1].snapshots, 1, Len(results[1].snapshots))
                  = results[1].snapshots
             /\ \A i \in 2..Len(results') :
                  /\ results'[i] = results[i]
                  /\ i = Len(results') => results'[i].snapshots = stats.snapshots]_vars

\* main has returned three results: the first with an interval snapshot
\* and the final one, the second with the one interval snapshot of its
\* phase
C31_Witness ==
  /\ pc = "done"
  /\ Len(results) = 3
  /\ Len(results[1].snapshots) = 2
  /\ Len(results[2].snapshots) = 1
  /\ results[1].snapshots[1] # results[2].snapshots[1]
  /\ results[3].snapshots = stats.snapshots

====
